---- MODULE Spec2Model ----
(***************************************************************************)
(* Model of main.py: the Cloud Function that scrapes the OSRS gold price   *)
(* history page, builds one DataFrame per chart script and uploads each as *)
(* <title>.csv to a storage bucket, then returns a text summary.           *)
(*                                                                         *)
(* Text is modelled as a sequence of atoms (short strings): a payload such *)
(* as 1.5,2.25,3 is << "1.5", ",", "2.25", ",", "3" >>.  A script element   *)
(* carries, for each of the three regular expressions of webscrapper, the  *)
(* list that findall returns on its text.                                  *)
(***************************************************************************)
EXTENDS Integers, Sequences, FiniteSets, TLC

MaxElements == 2        \* elements of the fetched page
MaxInvocations == 2     \* HTTP invocations of main in one behaviour

None == "None"

Raise(e) == [exc |-> e, val |-> <<>>]
Return(v) == [exc |-> None, val |-> v]

Min(a, b) == IF a <= b THEN a ELSE b

(***************************************************************************)
(* Upstream fixtures: payloads found between the markers.                  *)
(***************************************************************************)
Q == "\""
BS == "\\"

\* one categories token as the page writes it: "dd\/mm\/yyyy hh:mm AM"
RawDate(d, m, yr, h, mi, p) ==
    << Q, d, BS, "/", m, BS, "/", yr, " ", h, ":", mi, " ", p, Q >>

Date1 == RawDate("01", "01", "2024", "12", "00", "AM")
Date2 == RawDate("02", "01", "2024", "01", "30", "PM")
Date3 == RawDate("01", "03", "2024", "12", "00", "AM")
DateBad == RawDate("31", "02", "2024", "13", "00", "PM")

Values3 == << "1.5", ",", "2.25", ",", "3" >>
Values2 == << "3", ",", "0.229" >>
ValuesBad == << "1.5", ",", "abc" >>

Dates2 == Date1 \o << "," >> \o Date2
Dates2Rev == Date3 \o << "," >> \o Date1
Dates3 == Date2 \o << "," >> \o Date3 \o << "," >> \o Date1
DatesBad == Date1 \o << "," >> \o DateBad

Script(type, d, c, t) ==
    [tag |-> "script", type |-> type, data |-> d, categories |-> c, title |-> t]

JS == "text/javascript"

ElementPool ==
    { Script(JS, << Values3 >>, << Dates3 >>, << "Alltime" >>),
      Script(JS, << Values2 >>, << Dates2 >>, << "90 Day" >>),
      \* two data matches, two title matches, same first title as the first
      Script(JS, << ValuesBad, Values2 >>, << Dates2Rev >>, << "Alltime", "Price" >>),
      \* three values, two timestamps
      Script(JS, << Values3 >>, << Dates2 >>, << "Alltime" >>),
      Script(JS, << >>, << Dates2 >>, << "90 Day" >>),
      Script(JS, << ValuesBad >>, << Dates2 >>, << "90 Day" >>),
      Script(JS, << Values2 >>, << DatesBad >>, << "90 Day" >>),
      Script(JS, << Values2 >>, << >>, << "90 Day" >>),
      Script(JS, << Values2 >>, << Dates2 >>, << >>),
      \* a script of another type: not selected by find_all
      Script("application/json", << >>, << >>, << >>) }

Pages == UNION { [1..n -> ElementPool] : n \in 0..MaxElements }

Titles == { "Alltime", "90 Day", "Price" }

(***************************************************************************)
(* Library functions as webscrapper uses them.                             *)
(***************************************************************************)
\* soup.find_all('script', attrs={'type': 'text/javascript'})
find_all(page) ==
    SelectSeq(page, LAMBDA e : e.tag = "script" /\ e.type = JS)

\* regex.findall(str(axis.string))
findall(regex, axis) ==
    CASE regex = "y_regex" -> axis.data
      [] regex = "dates_regex" -> axis.categories
      [] regex = "title_regex" -> axis.title

\* list.pop(): the last element, IndexError on an empty list
pop(l) == IF l = << >> THEN Raise("IndexError") ELSE Return(l[Len(l)])

\* s.split(',')
RECURSIVE split(_)
split(s) ==
    IF \A i \in 1..Len(s) : s[i] # ","
    THEN << s >>
    ELSE LET c == CHOOSE i \in 1..Len(s) :
                      s[i] = "," /\ \A j \in 1..(i - 1) : s[j] # ","
         IN  << SubSeq(s, 1, c - 1) >> \o split(SubSeq(s, c + 1, Len(s)))

\* the numeric literals of the fixtures, in thousandths
FloatLiteral ==
    ("1.5" :> 1500) @@ ("2.25" :> 2250) @@ ("3" :> 3000) @@ ("0.229" :> 229)

\* float(token)
float(tok) ==
    IF Len(tok) = 1 /\ tok[1] \in DOMAIN FloatLiteral
    THEN Return(FloatLiteral[tok[1]])
    ELSE Raise("ValueError")

\* z.replace(ch, '')
replace(z, ch) == SelectSeq(z, LAMBDA a : a # ch)

DecimalLiteral ==
    ("00" :> 0) @@ ("01" :> 1) @@ ("02" :> 2) @@ ("03" :> 3) @@ ("12" :> 12)
    @@ ("13" :> 13) @@ ("30" :> 30) @@ ("31" :> 31) @@ ("2024" :> 2024)

IsLeap(yr) == (yr % 4 = 0 /\ yr % 100 # 0) \/ yr % 400 = 0

DaysInMonth(yr, m) ==
    IF m = 2 THEN (IF IsLeap(yr) THEN 29 ELSE 28)
    ELSE IF m \in {4, 6, 9, 11} THEN 30 ELSE 31

\* datetime.strptime(z, "%d/%m/%Y %I:%M %p")
strptime(z) ==
    IF /\ Len(z) = 11
       /\ z[2] = "/" /\ z[4] = "/" /\ z[6] = " " /\ z[8] = ":" /\ z[10] = " "
       /\ \A i \in {1, 3, 5, 7, 9} : z[i] \in DOMAIN DecimalLiteral
       /\ z[11] \in {"AM", "PM"}
    THEN LET d == DecimalLiteral[z[1]]
             m == DecimalLiteral[z[3]]
             yr == DecimalLiteral[z[5]]
             h == DecimalLiteral[z[7]]
             mi == DecimalLiteral[z[9]]
         IN  IF /\ m \in 1..12 /\ yr >= 1
                /\ d \in 1..DaysInMonth(yr, m)
                /\ h \in 1..12 /\ mi \in 0..59
             THEN Return([year |-> yr, month |-> m, day |-> d,
                          hour |-> IF z[11] = "PM"
                                   THEN (IF h = 12 THEN 12 ELSE h + 12)
                                   ELSE (IF h = 12 THEN 0 ELSE h),
                          minute |-> mi])
             ELSE Raise("ValueError")
    ELSE Raise("ValueError")

(***************************************************************************)
(* webscrapper: the three extraction pipes and the build loop.             *)
(***************************************************************************)
\* a list comprehension whose i-th element evaluates to r[i]: the list, or
\* the exception of the first element that raises
ListComp(r) ==
    LET bad == {i \in 1..Len(r) : r[i].exc # None}
    IN  IF bad = {}
        THEN Return([i \in 1..Len(r) |-> r[i].val])
        ELSE Raise(r[CHOOSE i \in bad : \A j \in bad : i <= j].exc)

\* list(map(float, tokens))
floats(tokens) == ListComp([i \in 1..Len(tokens) |-> float(tokens[i])])

\* the tokens of one block with backslashes and quotes removed, parsed
datetimes(tokens) ==
    ListComp([i \in 1..Len(tokens) |->
                  strptime(replace(replace(tokens[i], BS), Q))])

\* mutant of y_pipe: each block is popped, split and converted before the
\* next block is looked at
y_pipe_per_block(x) ==
    ListComp([i \in 1..Len(x) |->
                  LET last == pop(findall("y_regex", x[i]))
                  IN  IF last.exc # None THEN last ELSE floats(split(last.val))])

\* the pipe of y: every stage runs over all blocks before the next starts
y_pipe(x) ==
    LET popped == ListComp([i \in 1..Len(x) |-> pop(findall("y_regex", x[i]))])
    IN  IF popped.exc # None
        THEN popped
        ELSE ListComp([i \in 1..Len(x) |-> floats(split(popped.val[i]))])

\* the pipe of dates
dates_pipe(x) ==
    LET popped == ListComp([i \in 1..Len(x) |-> pop(findall("dates_regex", x[i]))])
    IN  IF popped.exc # None
        THEN popped
        ELSE ListComp([i \in 1..Len(x) |-> datetimes(split(popped.val[i]))])

\* the pipe of titles: the whole match list of every block
titles_pipe(x) == [i \in 1..Len(x) |-> findall("title_regex", x[i])]

\* mutant of DataFrame: the columns are zipped to the shorter length
DataFrameZip(d, p) ==
    Return([index |-> SubSeq(d, 1, Min(Len(d), Len(p))),
            price |-> SubSeq(p, 1, Min(Len(d), Len(p)))])

\* pd.DataFrame({'date': d, 'price': p}).set_index('date'): pandas refuses
\* columns of different lengths
DataFrame(d, p) ==
    IF Len(d) # Len(p)
    THEN Raise("ValueError")
    ELSE Return([index |-> d, price |-> p])

\* mutant of DictMerge: a known key keeps its first value
DictMergeFirstWins(data, key, value) ==
    IF \E j \in 1..Len(data) : data[j].key = key
    THEN data
    ELSE Append(data, [key |-> key, value |-> value])

\* data | {key: value}: a known key keeps its place and takes the new value
DictMerge(data, key, value) ==
    IF \E j \in 1..Len(data) : data[j].key = key
    THEN [j \in 1..Len(data) |->
              IF data[j].key = key THEN [key |-> key, value |-> value]
              ELSE data[j]]
    ELSE Append(data, [key |-> key, value |-> value])

\* mutant of build: the loop stops one block early
RECURSIVE build_skip_last(_, _, _, _, _)
build_skip_last(i, data, titles, dates, y) ==
    IF i > Len(titles) - 1
    THEN Return(data)
    ELSE IF titles[i] = << >>
    THEN Raise("IndexError")
    ELSE LET df == DataFrame(dates[i], y[i])
         IN  IF df.exc # None
             THEN df
             ELSE build_skip_last(i + 1, DictMerge(data, titles[i][1], df.val),
                                  titles, dates, y)

\* the loop over range(len(raw_series)), from block i on
RECURSIVE build(_, _, _, _, _)
build(i, data, titles, dates, y) ==
    IF i > Len(titles)
    THEN Return(data)
    ELSE IF titles[i] = << >>
    THEN Raise("IndexError")
    ELSE LET df == DataFrame(dates[i], y[i])
         IN  IF df.exc # None
             THEN df
             ELSE build(i + 1, DictMerge(data, titles[i][1], df.val),
                        titles, dates, y)

(***************************************************************************)
(* save_to_bucket and the summary of main.                                 *)
(***************************************************************************)
\* f'{timeframe}.csv'
blob(timeframe) == << timeframe, ".csv" >>

ObjectNames == { blob(t) : t \in Titles }

\* repr of a float given in thousandths: 3000 is 3.0, 2250 is 2.25
FloatRepr(v) ==
    LET f == v % 1000
        d1 == f \div 100
        d2 == (f \div 10) % 10
        d3 == f % 10
    IN  << v \div 1000, "." >>
        \o (IF d3 # 0 THEN << d1, d2, d3 >>
            ELSE IF d2 # 0 THEN << d1, d2 >>
            ELSE << d1 >>)

\* strftime('%Y-%m-%d %H:%M:%S')
strftime(t) ==
    << t.year, "-", t.month, "-", t.day, " ", t.hour, ":", t.minute, ":", 0 >>

\* the index column of to_csv: dates only when every timestamp is at midnight
FormatIndex(index, t) ==
    IF \A i \in 1..Len(index) : index[i].hour = 0 /\ index[i].minute = 0
    THEN << t.year, "-", t.month, "-", t.day >>
    ELSE strftime(t)

\* df.to_csv(): the header line, then one line per row
to_csv(df) ==
    << << "date", ",", "price" >> >>
    \o [i \in 1..Len(df.index) |->
            << FormatIndex(df.index, df.index[i]), ",", FloatRepr(df.price[i]) >>]

\* mutant of upload_from_string: the content is appended to the object
upload_appending(b, name, content) == [b EXCEPT ![name] = @ \o content]

\* blob.upload_from_string(content, 'text/csv'): the object is replaced
upload_from_string(b, name, content) == [b EXCEPT ![name] = content]

\* the order of timestamps
Minutes(t) ==
    (((t.year * 12 + t.month) * 31 + t.day) * 24 + t.hour) * 60 + t.minute

\* mutant of index_min: the first row
index_first(df) == df.index[1]

index_min(df) ==
    df.index[CHOOSE i \in 1..Len(df.index) :
                 \A j \in 1..Len(df.index) :
                     /\ Minutes(df.index[i]) <= Minutes(df.index[j])
                     /\ (Minutes(df.index[i]) = Minutes(df.index[j]) => i <= j)]

index_max(df) ==
    df.index[CHOOSE i \in 1..Len(df.index) :
                 \A j \in 1..Len(df.index) :
                     /\ Minutes(df.index[i]) >= Minutes(df.index[j])
                     /\ (Minutes(df.index[i]) = Minutes(df.index[j]) => i <= j)]

Header == "Webscraping Old School RuneScape Gold Prices"
Rule == "========================================"

SummaryLine(item) ==
    << item.key, ": From ", strftime(index_min(item.value)),
       " to ", strftime(index_max(item.value)) >>

message(data) ==
    << Header, Rule >> \o [i \in 1..Len(data) |-> SummaryLine(data[i])] \o << Rule >>

(***************************************************************************)
(* State: the upstream page, the bucket, and one invocation of main at a   *)
(* time (the function is single-threaded and request-scoped).              *)
(***************************************************************************)
VARIABLES
    upstream,     \* the elements of the page the site serves
    bucket,       \* object name -> content, NoObject when absent
    pc,           \* position of the running invocation
    inv,          \* invocations started so far
    status,       \* status code of the response to requests.get
    raw_series,   \* locals of webscrapper
    y,
    dates,
    titles,
    data,         \* the dict returned by webscrapper, in insertion order
    k,            \* position of save_to_bucket in data.items()
    err,          \* the exception that ended the invocation
    raisedIn,     \* the position at which it was raised
    response,     \* body of the HTTP 200 response, << >> when there is none
    bucket0,      \* history: the bucket when the invocation started
    uploads,      \* history: the uploads attempted by the invocation
    prev          \* history: how the previous invocation ended

vars == << upstream, bucket, pc, inv, status, raw_series, y, dates, titles,
           data, k, err, raisedIn, response, bucket0, uploads, prev >>

NoObject == << >>

\* an object left by an earlier deployment
StaleCsv == << << "date", ",", "price" >>, << << 2023, "-", 1, "-", 1 >>, ",", << 0, ".", 1 >> >> >>

Statuses == { 200, 503 }

locals == << raw_series, y, dates, titles, data, k >>

Init ==
    /\ upstream \in Pages
    /\ bucket \in [ObjectNames -> {NoObject, StaleCsv}]
    /\ pc = "idle"
    /\ inv = 0
    /\ status = 0
    /\ raw_series = << >> /\ y = << >> /\ dates = << >> /\ titles = << >>
    /\ data = << >>
    /\ k = 1
    /\ err = None
    /\ raisedIn = None
    /\ response = << >>
    /\ bucket0 = bucket
    /\ uploads = << >>
    /\ prev = [ok |-> FALSE, bucket |-> bucket]

\* mutant of Propagate: main catches the exception and answers 200 with it
PropagateCaught(e) ==
    /\ pc' = "returned"
    /\ err' = e
    /\ raisedIn' = pc
    /\ response' = << Header, e >>

\* an exception leaves main uncaught: the invocation ends without a response
Propagate(e) ==
    /\ pc' = "failed"
    /\ err' = e
    /\ raisedIn' = pc
    /\ response' = << >>

\* the HTTP trigger: a fresh invocation, nothing kept from the one before
Request ==
    /\ pc = "idle"
    /\ inv < MaxInvocations
    /\ inv' = inv + 1
    /\ pc' = "get"
    /\ status' = 0
    /\ raw_series' = << >> /\ y' = << >> /\ dates' = << >> /\ titles' = << >>
    /\ data' = << >>
    /\ k' = 1
    /\ err' = None
    /\ raisedIn' = None
    /\ response' = << >>
    /\ bucket0' = bucket
    /\ uploads' = << >>
    /\ UNCHANGED << upstream, bucket, prev >>

\* lines 85-87: requests.get raises when no response arrives; a response of
\* any status is parsed
GetOk ==
    /\ pc = "get"
    /\ \E s \in Statuses : status' = s
    /\ raw_series' = find_all(upstream)
    /\ pc' = "y"
    /\ UNCHANGED << upstream, bucket, inv, y, dates, titles, data, k, err,
                    raisedIn, response, bucket0, uploads, prev >>

GetRaises ==
    /\ pc = "get"
    /\ Propagate("ConnectionError")
    /\ UNCHANGED << upstream, bucket, inv, status, locals, bucket0, uploads, prev >>

\* lines 89-96
ExtractY ==
    /\ pc = "y"
    /\ LET r == y_pipe(raw_series)
       IN  IF r.exc # None
           THEN Propagate(r.exc) /\ y' = y
           ELSE /\ y' = r.val
                /\ pc' = "dates"
                /\ UNCHANGED << err, raisedIn, response >>
    /\ UNCHANGED << upstream, bucket, inv, status, raw_series, dates, titles,
                    data, k, bucket0, uploads, prev >>

\* lines 98-107
ExtractDates ==
    /\ pc = "dates"
    /\ LET r == dates_pipe(raw_series)
       IN  IF r.exc # None
           THEN Propagate(r.exc) /\ dates' = dates
           ELSE /\ dates' = r.val
                /\ pc' = "titles"
                /\ UNCHANGED << err, raisedIn, response >>
    /\ UNCHANGED << upstream, bucket, inv, status, raw_series, y, titles,
                    data, k, bucket0, uploads, prev >>

\* lines 109-113
ExtractTitles ==
    /\ pc = "titles"
    /\ titles' = titles_pipe(raw_series)
    /\ pc' = "build"
    /\ UNCHANGED << upstream, bucket, inv, status, raw_series, y, dates,
                    data, k, err, raisedIn, response, bucket0, uploads, prev >>

\* the entries built before the loop stops
RECURSIVE built_so_far(_, _, _, _, _)
built_so_far(i, d, ts, ds, ys) ==
    IF i > Len(ts) \/ ts[i] = << >> \/ DataFrame(ds[i], ys[i]).exc # None
    THEN d
    ELSE built_so_far(i + 1, DictMerge(d, ts[i][1], DataFrame(ds[i], ys[i]).val),
                      ts, ds, ys)

\* mutant of Build: every series is uploaded as soon as it is built
BuildStreaming ==
    /\ pc = "build"
    /\ LET r == build(1, << >>, titles, dates, y)
           part == built_so_far(1, << >>, titles, dates, y)
       IN  /\ bucket' = [n \in ObjectNames |->
                            IF \E j \in 1..Len(part) : blob(part[j].key) = n
                            THEN to_csv(part[CHOOSE j \in 1..Len(part) :
                                                 blob(part[j].key) = n].value)
                            ELSE bucket[n]]
           /\ IF r.exc # None
              THEN Propagate(r.exc) /\ data' = data
              ELSE /\ data' = r.val
                   /\ pc' = "get_bucket"
                   /\ UNCHANGED << err, raisedIn, response >>
    /\ UNCHANGED << upstream, inv, status, raw_series, y, dates, titles,
                    k, bucket0, uploads, prev >>

\* lines 116-124: webscrapper returns data to main, or raises
Build ==
    /\ pc = "build"
    /\ LET r == build(1, << >>, titles, dates, y)
       IN  IF r.exc # None
           THEN Propagate(r.exc) /\ data' = data
           ELSE /\ data' = r.val
                /\ pc' = "get_bucket"
                /\ UNCHANGED << err, raisedIn, response >>
    /\ UNCHANGED << upstream, bucket, inv, status, raw_series, y, dates, titles,
                    k, bucket0, uploads, prev >>

\* lines 140-141: storage.Client() and client.get_bucket
GetBucketOk ==
    /\ pc = "get_bucket"
    /\ pc' = "upload"
    /\ k' = 1
    /\ UNCHANGED << upstream, bucket, inv, status, raw_series, y, dates, titles,
                    data, err, raisedIn, response, bucket0, uploads, prev >>

GetBucketRaises ==
    /\ pc = "get_bucket"
    /\ Propagate("GoogleCloudError")
    /\ UNCHANGED << upstream, bucket, inv, status, locals, bucket0, uploads, prev >>

\* lines 144-146: one turn of the loop over data.items()
UploadOk ==
    /\ pc = "upload"
    /\ k <= Len(data)
    /\ bucket' = upload_from_string(bucket, blob(data[k].key), to_csv(data[k].value))
    /\ uploads' = Append(uploads, [name |-> blob(data[k].key), ok |-> TRUE])
    /\ k' = k + 1
    /\ UNCHANGED << upstream, pc, inv, status, raw_series, y, dates, titles,
                    data, err, raisedIn, response, bucket0, prev >>

\* mutant of UploadRaises: the writes of the invocation are undone
UploadRaisesRollback ==
    /\ pc = "upload"
    /\ k <= Len(data)
    /\ uploads' = Append(uploads, [name |-> blob(data[k].key), ok |-> FALSE])
    /\ Propagate("GoogleCloudError")
    /\ bucket' = bucket0
    /\ UNCHANGED << upstream, inv, status, locals, bucket0, prev >>

UploadRaises ==
    /\ pc = "upload"
    /\ k <= Len(data)
    /\ uploads' = Append(uploads, [name |-> blob(data[k].key), ok |-> FALSE])
    /\ Propagate("GoogleCloudError")
    /\ UNCHANGED << upstream, bucket, inv, status, locals, bucket0, prev >>

\* lines 33-41: the loop is over, main formats the summary and returns it
Summarize ==
    /\ pc = "upload"
    /\ k > Len(data)
    /\ response' = message(data)
    /\ pc' = "returned"
    /\ UNCHANGED << upstream, bucket, inv, status, locals, err, raisedIn,
                    bucket0, uploads, prev >>

\* the invocation is over; the next request starts from the bucket alone
Finish ==
    /\ pc \in {"returned", "failed"}
    /\ pc' = "idle"
    /\ prev' = [ok |-> pc = "returned", bucket |-> bucket]
    /\ UNCHANGED << upstream, bucket, inv, status, locals, err, raisedIn,
                    response, bucket0, uploads >>

Next ==
    \/ Request
    \/ GetOk
    \/ GetRaises
    \/ ExtractY
    \/ ExtractDates
    \/ ExtractTitles
    \/ Build
    \/ GetBucketOk
    \/ GetBucketRaises
    \/ UploadOk
    \/ UploadRaises
    \/ Summarize
    \/ Finish

Spec == Init /\ [][Next]_vars

(***************************************************************************)
(* Vocabulary of the claims.                                               *)
(***************************************************************************)
\* requests.get returned a response in the running invocation
Fetched == pc \notin {"idle", "get"} /\ ~(pc = "failed" /\ raisedIn = "get")

\* webscrapper returned its dict to main
WebscrapperReturned ==
    \/ pc \in {"get_bucket", "upload", "returned"}
    \/ pc = "failed" /\ raisedIn \in {"get_bucket", "upload"}

\* webscrapper raised after the fetch
WebscrapperRaised ==
    pc = "failed" /\ raisedIn \in {"y", "dates", "titles", "build"}

\* the build loop was entered
BuildAttempted == WebscrapperReturned \/ (pc = "failed" /\ raisedIn = "build")

Blocks == 1..Len(raw_series)

HasMarkers(b) == b.data # << >> /\ b.categories # << >> /\ b.title # << >>

ValueTokens(b) == split(b.data[Len(b.data)])
DateTokens(b) == split(b.categories[Len(b.categories)])

ValuesParseable(b) ==
    /\ b.data # << >>
    /\ \A i \in 1..Len(ValueTokens(b)) : float(ValueTokens(b)[i]).exc = None

DatesParseable(b) ==
    /\ b.categories # << >>
    /\ \A i \in 1..Len(DateTokens(b)) :
           strptime(replace(replace(DateTokens(b)[i], BS), Q)).exc = None

Parseable(b) == ValuesParseable(b) /\ DatesParseable(b)

WellFormedBlock(b) == HasMarkers(b) /\ Parseable(b)

AllWellFormed == \A i \in Blocks : WellFormedBlock(raw_series[i])

EqualLengths(b) == Len(ValueTokens(b)) = Len(DateTokens(b))

FirstTitles == { raw_series[i].title[1] : i \in {j \in Blocks : raw_series[j].title # << >>} }

\* the highest-indexed block whose first title is t
LastBlockTitled(t) ==
    CHOOSE i \in Blocks :
        /\ titles[i] # << >> /\ titles[i][1] = t
        /\ \A j \in Blocks : (titles[j] # << >> /\ titles[j][1] = t) => j <= i

EntriesFor(t) == {j \in 1..Len(data) : data[j].key = t}

(***************************************************************************)
(* C1                                                                      *)
(***************************************************************************)
\* C1 as stated: on a fetched page whose N selected blocks all have the three
\* markers and parseable tokens, webscrapper returns exactly N entries, each
\* with as many timestamps as prices.
C1_NWellFormedBlocksGiveNSeries ==
    (Fetched /\ AllWellFormed /\ (WebscrapperReturned \/ WebscrapperRaised))
    => /\ WebscrapperReturned
       /\ Len(data) = Len(raw_series)
       /\ \A j \in 1..Len(data) : Len(data[j].value.index) = Len(data[j].value.price)

\* C1 amended: when in addition every block has as many timestamps as values,
\* webscrapper returns one entry per distinct first title (N entries when the
\* N titles differ), each with as many timestamps as prices.
C1_OneSeriesPerDistinctTitle ==
    (/\ Fetched /\ AllWellFormed
     /\ \A i \in Blocks : EqualLengths(raw_series[i])
     /\ (WebscrapperReturned \/ WebscrapperRaised))
    => /\ WebscrapperReturned
       /\ Len(data) = Cardinality(FirstTitles)
       /\ (Cardinality(FirstTitles) = Len(raw_series) => Len(data) = Len(raw_series))
       /\ \A j \in 1..Len(data) :
              /\ Len(data[j].value.index) = Len(data[j].value.price)
              /\ Len(data[j].value.index) >= 1

C1_Witness ==
    /\ WebscrapperReturned /\ AllWellFormed
    /\ Len(raw_series) = 2 /\ Len(data) = 2
    /\ Len(data[1].value.index) = 3 /\ Len(data[2].value.index) = 2

(***************************************************************************)
(* C2                                                                      *)
(***************************************************************************)
\* C2 as stated: a block whose value and timestamp sequences differ in length
\* does not make the build fail; its series has the shorter length and pairs
\* the i-th timestamp with the i-th value.
C2_MismatchIsTruncated ==
    (/\ BuildAttempted /\ AllWellFormed
     /\ \E i \in Blocks : Len(dates[i]) # Len(y[i]))
    => /\ WebscrapperReturned
       /\ \A t \in FirstTitles :
              \E j \in EntriesFor(t) :
                  LET i == LastBlockTitled(t)
                      n == Min(Len(dates[i]), Len(y[i]))
                  IN  /\ data[j].value.index = SubSeq(dates[i], 1, n)
                      /\ data[j].value.price = SubSeq(y[i], 1, n)

\* the first block at which the build loop stops
FirstBadBlock ==
    CHOOSE i \in Blocks :
        /\ titles[i] = << >> \/ Len(dates[i]) # Len(y[i])
        /\ \A j \in 1..(i - 1) : titles[j] # << >> /\ Len(dates[j]) = Len(y[j])

\* C2 amended: a block whose value and timestamp sequences differ in length
\* makes the build fail with ValueError (IndexError when that block or an
\* earlier one has no title): no dict is returned and nothing is uploaded;
\* a series that is built pairs the i-th timestamp with the i-th value of
\* its block, all of them.
C2_MismatchRaises ==
    /\ (BuildAttempted /\ \E i \in Blocks : Len(dates[i]) # Len(y[i]))
       => /\ pc = "failed" /\ raisedIn = "build"
          /\ err = (IF titles[FirstBadBlock] = << >> THEN "IndexError" ELSE "ValueError")
          /\ data = << >> /\ response = << >>
          /\ uploads = << >> /\ bucket = bucket0
    /\ WebscrapperReturned
       => \A j \in 1..Len(data) :
              LET i == LastBlockTitled(data[j].key)
              IN  /\ data[j].value.index = dates[i]
                  /\ data[j].value.price = y[i]
                  /\ Len(dates[i]) = Len(y[i])

C2_Witness ==
    /\ pc = "failed" /\ raisedIn = "build" /\ err = "ValueError"
    /\ AllWellFormed
    /\ \E i \in Blocks :
           Len(y[i]) = 3 /\ Len(dates[i]) = 2 /\ titles[i][1] = "Alltime"

(***************************************************************************)
(* C3                                                                      *)
(***************************************************************************)
\* C3: once the fetch has succeeded and the y pipe has run, a selected block
\* without a match of the data pattern means the invocation failed with
\* IndexError in that pipe, whatever the other blocks hold; no dict, no
\* response, no series for that block, no upload.
C3_MissingDataRaisesIndexError ==
    (/\ Fetched /\ pc # "y"
     /\ \E i \in Blocks : findall("y_regex", raw_series[i]) = << >>)
    => /\ pc = "failed" /\ raisedIn = "y" /\ err = "IndexError"
       /\ data = << >> /\ response = << >>
       /\ uploads = << >> /\ bucket = bucket0

\* a block with a malformed number precedes the block without data
C3_Witness ==
    /\ pc = "failed" /\ raisedIn = "y" /\ err = "IndexError"
    /\ Len(raw_series) = 2
    /\ raw_series[1].data # << >> /\ ~ValuesParseable(raw_series[1])
    /\ raw_series[2].data = << >>

(***************************************************************************)
(* C4                                                                      *)
(***************************************************************************)
\* C4: when the k-th upload of save_to_bucket fails, the k-1 objects written
\* before it hold their new content, the k-th and later objects and every
\* other object hold what they held when the invocation started, no object
\* was attempted twice, and the invocation has failed without a response.
C4_FailedUploadKeepsEarlierWrites ==
    (pc = "failed" /\ raisedIn = "upload")
    => /\ Len(uploads) = k /\ k <= Len(data)
       /\ ~uploads[k].ok /\ uploads[k].name = blob(data[k].key)
       /\ \A j \in 1..(k - 1) :
              /\ uploads[j].ok /\ uploads[j].name = blob(data[j].key)
              /\ bucket[blob(data[j].key)] = to_csv(data[j].value)
       /\ \A j \in k..Len(data) :
              bucket[blob(data[j].key)] = bucket0[blob(data[j].key)]
       /\ \A n \in ObjectNames :
              (\A j \in 1..(k - 1) : n # blob(data[j].key)) => bucket[n] = bucket0[n]
       /\ \A i, j \in 1..Len(uploads) : i # j => uploads[i].name # uploads[j].name
       /\ err = "GoogleCloudError" /\ response = << >>

\* the second of two uploads fails; the first replaced an object, the second
\* would have replaced another
C4_Witness ==
    /\ pc = "failed" /\ raisedIn = "upload" /\ k = 2
    /\ bucket0[blob(data[1].key)] = StaleCsv
    /\ bucket[blob(data[1].key)] # StaleCsv
    /\ bucket[blob(data[2].key)] = StaleCsv

(***************************************************************************)
(* C5                                                                      *)
(***************************************************************************)
\* C5: an invocation that returns right after one that returned, the page
\* being the same, leaves every object as the first left it and adds none.
C5_SecondRunLeavesBucketAsFirst ==
    (pc = "returned" /\ prev.ok /\ inv >= 2) => bucket = prev.bucket

C5_Witness ==
    /\ pc = "returned" /\ prev.ok /\ inv = 2
    /\ Len(uploads) = 2
    /\ \E n \in ObjectNames : prev.bucket[n] = StaleCsv
    /\ \E n \in ObjectNames : prev.bucket[n] \notin {StaleCsv, NoObject}

(***************************************************************************)
(* C6                                                                      *)
(***************************************************************************)
\* C6: main returns the summary exactly when no step raised: a returned
\* invocation has run every pipe over every block, built the dict and
\* uploaded every entry of it, and no exception is recorded; a failed one
\* records the exception of the step that raised and has no response.
C6_SummaryIffNoStepRaised ==
    /\ pc = "returned"
       => /\ response = message(data) /\ response # << >>
          /\ err = None /\ raisedIn = None
          /\ Len(y) = Len(raw_series) /\ Len(dates) = Len(raw_series)
          /\ Len(titles) = Len(raw_series)
          /\ Len(uploads) = Len(data)
          /\ \A j \in 1..Len(data) :
                 uploads[j].ok /\ uploads[j].name = blob(data[j].key)
    /\ pc = "failed"
       => /\ response = << >>
          /\ err # None
          /\ raisedIn \in {"get", "y", "dates", "build", "get_bucket", "upload"}
    /\ pc \notin {"returned", "idle"} => response = << >>
    /\ response # << >> => err = None

C6_Witness ==
    /\ pc = "returned" /\ Len(data) = 2 /\ Len(response) = 5

(***************************************************************************)
(* C7                                                                      *)
(***************************************************************************)
\* C7 as stated: a response with a status outside 2xx makes the fetch fail;
\* the invocation goes no further than requests.get.
C7_NonOkStatusFailsTheFetch ==
    (pc # "idle" /\ status # 0 /\ status \notin 200..299)
    => pc = "failed" /\ raisedIn = "get"

(***************************************************************************)
(* C8                                                                      *)
(***************************************************************************)
IsEarliest(t, index) ==
    /\ \E i \in 1..Len(index) : index[i] = t
    /\ \A i \in 1..Len(index) : Minutes(t) <= Minutes(index[i])

IsLatest(t, index) ==
    /\ \E i \in 1..Len(index) : index[i] = t
    /\ \A i \in 1..Len(index) : Minutes(t) >= Minutes(index[i])

\* C8: the returned text is the header and the rule, one line per entry of
\* the dict in its order with the entry's key and its earliest and latest
\* timestamp, then the rule; header and rules alone for an empty dict.
C8_SummaryListsMinAndMax ==
    pc = "returned"
    => /\ Len(response) = Len(data) + 3
       /\ response[1] = Header /\ response[2] = Rule
       /\ response[Len(response)] = Rule
       /\ \A j \in 1..Len(data) :
              LET line == response[j + 2]
                  index == data[j].value.index
              IN  /\ Len(line) = 5
                  /\ line[1] = data[j].key
                  /\ line[2] = ": From " /\ line[4] = " to "
                  /\ \E t \in {index[i] : i \in 1..Len(index)} :
                         IsEarliest(t, index) /\ line[3] = strftime(t)
                  /\ \E t \in {index[i] : i \in 1..Len(index)} :
                         IsLatest(t, index) /\ line[5] = strftime(t)

\* a series whose first row is not its earliest and whose last is not its latest
C8_Witness ==
    /\ pc = "returned" /\ Len(data) >= 1
    /\ LET index == data[1].value.index
       IN  /\ ~IsEarliest(index[1], index)
           /\ ~IsLatest(index[Len(index)], index)
           /\ ~IsLatest(index[1], index)

(***************************************************************************)
(* C9                                                                      *)
(***************************************************************************)
\* C9: blocks with the same first title do not make the build fail (it fails
\* only on a block without title or with columns of different lengths); the
\* dict holds one entry per distinct title, built from the highest-indexed
\* block with it, hence one object and one summary line for the title.
C9_LastBlockWinsPerTitle ==
    /\ (pc = "failed" /\ raisedIn = "build")
       => \E i \in Blocks : titles[i] = << >> \/ Len(dates[i]) # Len(y[i])
    /\ WebscrapperReturned
       => /\ Len(data) = Cardinality(FirstTitles)
          /\ \A t \in FirstTitles :
                 /\ Cardinality(EntriesFor(t)) = 1
                 /\ \A j \in EntriesFor(t) :
                        /\ data[j].value.index = dates[LastBlockTitled(t)]
                        /\ data[j].value.price = y[LastBlockTitled(t)]
    /\ pc = "returned"
       => \A t \in FirstTitles :
              /\ Cardinality({i \in 3..(Len(response) - 1) : response[i][1] = t}) = 1
              /\ Cardinality({i \in 1..Len(uploads) : uploads[i].name = blob(t)}) = 1
              /\ bucket[blob(t)] =
                     to_csv([index |-> dates[LastBlockTitled(t)],
                             price |-> y[LastBlockTitled(t)]])

\* two blocks titled alike, with different series
C9_Witness ==
    /\ pc = "returned" /\ Len(raw_series) = 2 /\ Len(data) = 1
    /\ titles[1][1] = titles[2][1]
    /\ dates[1] # dates[2] /\ y[1] # y[2]

(***************************************************************************)
(* C10                                                                     *)
(***************************************************************************)
\* C10: until webscrapper has returned the whole dict and the bucket handle
\* is there, and for good when the fetch, a pipe or the build raised, the
\* bucket is as the invocation found it and no upload was attempted.
C10_NoUploadBeforeDictIsBuilt ==
    (\/ pc \in {"get", "y", "dates", "titles", "build", "get_bucket"}
     \/ pc = "failed" /\ raisedIn \in {"get", "y", "dates", "titles", "build", "get_bucket"})
    => bucket = bucket0 /\ uploads = << >>

\* the first block is sound and would replace an object, the second breaks
\* the build
C10_Witness ==
    /\ pc = "failed" /\ raisedIn = "build"
    /\ Len(raw_series) = 2
    /\ titles[1] # << >> /\ Len(dates[1]) = Len(y[1])
    /\ bucket[blob(titles[1][1])] = StaleCsv

====
